---- MODULE Spec2Model ----
(***************************************************************************)
(* Model of the unified chatbot endpoint of reteq                          *)
(* (src/app/services/chatbot/chatbot_route.py): the request pipeline of    *)
(* unified_chat, the prompt builders, the vision extractor, the two        *)
(* generation clients and the response normaliser parse_json_response.     *)
(* Beside it: the legacy service (src/app/services/chatbot/chatbot.py):    *)
(* its personalization text (_build_pmood_instruction), its generators     *)
(* and its entry point get_response; and several requests of the unified   *)
(* endpoint served together by the event loop of the server.               *)
(*                                                                         *)
(* Texts exchanged with the providers are sequences of characters, each   *)
(* character written as a string that names it.  The text of a complete    *)
(* JSON document (or of a stretch of prose) is carried by a single opaque  *)
(* character, because the code never cuts inside it: it only trims white   *)
(* space and removes the fence markers at both ends.                       *)
(***************************************************************************)
EXTENDS Naturals, Sequences, FiniteSets, TLC

VARIABLES
    req,            \* the form fields of the request (immutable)
    pc,             \* position of the handler
    mode,           \* local `mode` after mode.lower()
    context_type,   \* local `context_type` passed to the vision extractor
    image_context,  \* local `image_context` (Optional[str])
    prompt,         \* local `prompt`
    raw_response,   \* local `raw_response` / parameter `llm_output`
    result,         \* local `result` (value returned by parse_json_response)
    response,       \* what the caller receives: status, detail, body
    log,            \* provider calls and pipeline steps of this request, in order
    pmoods_off,     \* parameter `pmoods_off` of ChatbotService._build_pmood_instruction
    instruction,    \* the text _build_pmood_instruction returns, line by line
    tasks,          \* concurrent requests on one event loop: the locals of each handler
    running,        \* the request whose handler holds the event-loop thread, or 0
    request,        \* parameter `request` of ChatbotService.get_response
    analysis,       \* local `analysis` of get_response
    groq_answer,    \* what the provider call of the generator ended in
    generated,      \* the prompt the generator sent and what it returned
    chat_response   \* what get_response returns or raises

vars == <<req, pc, mode, context_type, image_context, prompt, raw_response,
          result, response, log, pmoods_off, instruction, tasks, running,
          request, analysis, groq_answer, generated, chat_response>>

\* The variables of ChatbotService.get_response.
entry == <<request, analysis, groq_answer, generated, chat_response>>

\* The variables of the event loop that serves concurrent requests.
loop == <<tasks, running>>

\* The variables of the legacy service (chatbot.py).
service == <<pmoods_off, instruction, entry>>

-----------------------------------------------------------------------------
(* Bounds *)

\* Largest number of white-space characters put before or after a text.
MaxPad == 1

\* Longest list of disabled traits handed to _build_pmood_instruction.
MaxOff == 5

\* Number of requests served concurrently by one event loop.
NumRequests == 2

-----------------------------------------------------------------------------
(* Python values *)

\* Python None for an Optional[str] form field.
None == "<None>"

\* bool(s) for an Optional[str]: None and "" are falsy.
Truthy(s) == s # None /\ s # ""

\* dict.get(key, default)
DictGet(d, key, default) == IF key \in DOMAIN d THEN d[key] ELSE default

\* A value that is not there (no reply, no raw_output).
NoValue == [type |-> "absent", val |-> ""]

\* A parsed JSON value.  `members` is what the Python operator `in` tests:
\* the keys of a dict, the string items of a list, the substrings of interest
\* of a str.  `reply` is the value stored under the key "reply" of a dict.
PyValue(type, members, reply, raw) ==
    [type |-> type, members |-> members, reply |-> reply, raw_output |-> raw]

PyNothing == PyValue("absent", {}, NoValue, <<>>)

\* The JSON documents a provider may answer with, and the value json.loads
\* returns for each.
JsonDocs ==
    [ doc_reply_str       |-> PyValue("dict", {"reply"}, [type |-> "str", val |-> "hi"], <<>>),
      doc_reply_int       |-> PyValue("dict", {"reply"}, [type |-> "int", val |-> "42"], <<>>),
      doc_reply_null      |-> PyValue("dict", {"reply"}, [type |-> "NoneType", val |-> "null"], <<>>),
      doc_reply_list      |-> PyValue("dict", {"reply"}, [type |-> "list", val |-> "[hi]"], <<>>),
      doc_reply_obj       |-> PyValue("dict", {"reply"}, [type |-> "dict", val |-> "{text:hi}"], <<>>),
      doc_reply_and_error |-> PyValue("dict", {"reply", "error"}, [type |-> "str", val |-> "hi"], <<>>),
      doc_reply_and_note  |-> PyValue("dict", {"reply", "note"}, [type |-> "str", val |-> "hi"], <<>>),
      doc_error_only      |-> PyValue("dict", {"error"}, NoValue, <<>>),
      doc_empty_obj       |-> PyValue("dict", {}, NoValue, <<>>),
      doc_other_key       |-> PyValue("dict", {"message"}, NoValue, <<>>),
      doc_list            |-> PyValue("list", {}, NoValue, <<>>),
      doc_list_reply      |-> PyValue("list", {"reply"}, NoValue, <<>>),
      doc_list_error      |-> PyValue("list", {"error"}, NoValue, <<>>),
      doc_str             |-> PyValue("str", {}, NoValue, <<>>),
      doc_str_reply       |-> PyValue("str", {"reply"}, NoValue, <<>>),
      doc_str_error       |-> PyValue("str", {"error"}, NoValue, <<>>),
      doc_int             |-> PyValue("int", {}, NoValue, <<>>),
      doc_null            |-> PyValue("NoneType", {}, NoValue, <<>>),
      doc_true            |-> PyValue("bool", {}, NoValue, <<>>) ]

\* Text that is no JSON document.
Prose == "prose"

Whitespace == {" ", "\n"}

\* The backtick character.
Backtick == "backtick"

\* The fence marker: three backticks.
Tick3 == <<Backtick, Backtick, Backtick>>
TagJson == <<"j", "s", "o", "n">>
TagUpper == <<"J", "S", "O", "N">>

-----------------------------------------------------------------------------
(* str methods *)

RECURSIVE lstrip(_)
lstrip(s) == IF s # <<>> /\ Head(s) \in Whitespace THEN lstrip(Tail(s)) ELSE s

RECURSIVE rstrip(_)
rstrip(s) ==
    IF s # <<>> /\ s[Len(s)] \in Whitespace THEN rstrip(SubSeq(s, 1, Len(s) - 1)) ELSE s

\* str.strip()
strip(s) == rstrip(lstrip(s))

\* str.startswith(p), str.endswith(p)
startswith(s, p) == Len(s) >= Len(p) /\ SubSeq(s, 1, Len(p)) = p
endswith(s, p) == Len(s) >= Len(p) /\ SubSeq(s, Len(s) - Len(p) + 1, Len(s)) = p

\* s[n:] and s[:-n]
DropFirst(s, n) == SubSeq(s, n + 1, Len(s))
DropLast(s, n) == SubSeq(s, 1, Len(s) - n)

-----------------------------------------------------------------------------
(* parse_json_response *)

\* json.loads(s): white space around the document is accepted, anything else
\* than exactly one document raises JSONDecodeError.
json_loads(s) ==
    LET t == strip(s) IN
    IF Len(t) = 1 /\ t[1] \in DOMAIN JsonDocs
    THEN [ok |-> TRUE, value |-> JsonDocs[t[1]]]
    ELSE [ok |-> FALSE, value |-> PyNothing]

\* The text handed to json.loads: stripped, a leading fence marker (with the
\* tag json, or bare) removed, a trailing fence marker removed.
RemoveFences(llm_output) ==
    LET c0 == strip(llm_output)
        c1 == IF startswith(c0, Tick3 \o TagJson) THEN DropFirst(c0, 7)
              ELSE IF startswith(c0, Tick3) THEN DropFirst(c0, 3)
              ELSE c0
    IN  IF endswith(c1, Tick3) THEN DropLast(c1, 3) ELSE c1

\* The dict returned on JSONDecodeError.
InvalidJson(raw) == PyValue("dict", {"error", "raw_output"}, NoValue, raw)

\* A fault: the error dict carries the cleaned text instead of the original.
parse_json_response_cleaned(llm_output) ==
    LET cleaned_output == RemoveFences(llm_output)
        parsed == json_loads(strip(cleaned_output))
    IN  IF parsed.ok THEN parsed.value ELSE InvalidJson(strip(cleaned_output))

parse_json_response(llm_output) ==
    LET cleaned_output == RemoveFences(llm_output)
        parsed == json_loads(strip(cleaned_output))
    IN  IF parsed.ok THEN parsed.value ELSE InvalidJson(llm_output)

-----------------------------------------------------------------------------
(* Texts a provider can produce *)

Pad(n, ch) == [i \in 1..n |-> ch]

\* A text is laid out as: white space, opening fence with its tag, newline,
\* body, newline, closing fence, white space; every part may be missing.
Shapes ==
    [ pre   : 0..MaxPad,
      open  : BOOLEAN,
      tag   : {<<>>, TagJson, TagUpper},
      nl    : BOOLEAN,
      body  : DOMAIN JsonDocs \cup {Prose, ""},
      close : BOOLEAN,
      post  : 0..MaxPad ]

WellFormedShape(sh) == (~sh.open => sh.tag = <<>>)

Text(sh) ==
    Pad(sh.pre, " ")
    \o (IF sh.open THEN Tick3 \o sh.tag ELSE <<>>)
    \o (IF sh.nl THEN <<"\n">> ELSE <<>>)
    \o (IF sh.body = "" THEN <<>> ELSE <<sh.body>>)
    \o (IF sh.nl THEN <<"\n">> ELSE <<>>)
    \o (IF sh.close THEN Tick3 ELSE <<>>)
    \o Pad(sh.post, "\n")

RawTexts == {Text(sh) : sh \in {s \in Shapes : WellFormedShape(s)}}

-----------------------------------------------------------------------------
(* Prompt builders *)

\* A prompt is the template of its mode with the interpolated parts.  A part
\* that contributes nothing is "" (text fields) or <<>> (image context).
Prompt(template, fields, target_tone, ctx_text, img_text) ==
    [template |-> template, fields |-> fields, target_tone |-> target_tone,
     ctx_text |-> ctx_text, img_text |-> img_text]

NoPrompt == Prompt("", <<>>, "", "", <<>>)

\* Optional[str] holding a provider text.
NoContext == [some |-> FALSE, val |-> <<>>]
SomeContext(t) == [some |-> TRUE, val |-> t]

\* bool(image_context)
TruthyContext(c) == c.some /\ c.val # <<>>

Mode1MoodInstructions ==
    [ casual     |-> "Casual, friendly, and relaxed.",
      flirty     |-> "Subtly playful and flirty (not explicit).",
      nonchalant |-> "Short, detached, and unconcerned.",
      slap_back  |-> "Witty, biting, and sharp (not abusive)." ]

Mode1Fallback == "Match the requested tone."

OpenerTypeInstructions ==
    [ if_you               |-> "Start with 'If you...' followed by an interesting hypothetical scenario or question.",
      between              |-> "Start with 'Between...' presenting two interesting options or choices.",
      if_i_was             |-> "Start with 'If I was...' creating an imaginative scenario or role-play situation.",
      would_you_rather     |-> "Start with 'Would you rather...' presenting two intriguing alternatives.",
      what_is_something    |-> "Start with 'What is something that...' asking about preferences, experiences, or beliefs.",
      in_a_situation       |-> "Start with 'In a situation where...' describing a hypothetical scenario.",
      how_would_you_handle |-> "Start with 'How would you handle...' presenting a situation requiring a response or decision." ]

Mode2Fallback == "Generate an engaging conversation opener."

Mode3MoodInstructions ==
    [ casual      |-> "Keep it light, relaxed, and easy-going. Don't overthink the situation.",
      apologetic  |-> "Be understanding and apologetic. Show you care about the confusion or misunderstanding.",
      encouraging |-> "Be positive, supportive, and uplifting. Turn the awkward moment into something good.",
      sarcastic   |-> "Use witty sarcasm and humor to deflect or address the situation playfully (not mean).",
      curious     |-> "Show genuine interest and curiosity. Ask questions to understand better.",
      flirty      |-> "Turn the awkward moment into a playful, flirty opportunity while staying smooth.",
      empathetic  |-> "Show deep understanding and emotional connection. Validate their feelings or situation." ]

Mode3Fallback == "Handle the situation appropriately."

\* A fault: an unknown mood is looked up without a default (KeyError), shown
\* here as no tone at all.
build_mode1_prompt_nodefault(original_message, user_response, mood, personal_ctx, image_ctx) ==
    Prompt("mode1", <<original_message, user_response>>,
           DictGet(Mode1MoodInstructions, mood, ""),
           IF Truthy(personal_ctx) THEN personal_ctx ELSE "",
           IF TruthyContext(image_ctx) THEN image_ctx.val ELSE <<>>)

build_mode1_prompt(original_message, user_response, mood, personal_ctx, image_ctx) ==
    Prompt("mode1", <<original_message, user_response>>,
           DictGet(Mode1MoodInstructions, mood, Mode1Fallback),
           IF Truthy(personal_ctx) THEN personal_ctx ELSE "",
           IF TruthyContext(image_ctx) THEN image_ctx.val ELSE <<>>)

build_mode2_prompt(opener_type, ctx) ==
    Prompt("mode2", <<>>,
           DictGet(OpenerTypeInstructions, opener_type, Mode2Fallback),
           IF Truthy(ctx) THEN ctx ELSE "",
           <<>>)

build_mode3_prompt(situation_description, mood, image_ctx) ==
    Prompt("mode3", <<situation_description>>,
           DictGet(Mode3MoodInstructions, mood, Mode3Fallback),
           "",
           IF TruthyContext(image_ctx) THEN image_ctx.val ELSE <<>>)

-----------------------------------------------------------------------------
(* Providers *)

\* What a provider call can end in: an exception, or a response whose text
\* is the given one (<<>>: the response has no text).
ProviderFault == [fault |-> TRUE, text |-> <<>>]
ProviderText(t) == [fault |-> FALSE, text |-> t]

\* Texts of the vision provider: nothing, white space only, a description.
VisionTexts ==
    {Pad(a, " ") \o body \o Pad(b, "\n") :
        a \in 0..MaxPad, b \in 0..MaxPad, body \in {<<>>, <<"description">>}}

VisionOutcomes == {ProviderFault} \cup {ProviderText(t) : t \in VisionTexts}

\* Texts of the generation providers: every document bare, and the plain
\* reply document and prose in every layout.
GenerationTexts ==
    {Text(sh) : sh \in {s \in Shapes :
        /\ WellFormedShape(s)
        /\ \/ s.body \in {"doc_reply_str", Prose, ""}
           \/ (~s.open /\ ~s.close /\ ~s.nl /\ s.pre = 0 /\ s.post = 0)}}

GenerationOutcomes == {ProviderFault} \cup {ProviderText(t) : t \in GenerationTexts}

\* A fault: the exception of the vision call is not caught.
extract_context_from_image_raising(outcome) ==
    IF outcome.fault THEN [raised |-> TRUE, value |-> NoContext]
    ELSE IF outcome.text # <<>> THEN [raised |-> FALSE, value |-> SomeContext(strip(outcome.text))]
    ELSE [raised |-> FALSE, value |-> NoContext]

\* extract_context_from_image, given what the vision call ends in.
extract_context_from_image(outcome) ==
    IF outcome.fault THEN [raised |-> FALSE, value |-> NoContext]
    ELSE IF outcome.text # <<>> THEN [raised |-> FALSE, value |-> SomeContext(strip(outcome.text))]
    ELSE [raised |-> FALSE, value |-> NoContext]

\* Exceptions.
HTTPException(status_code, detail) ==
    [exc |-> "HTTPException", status_code |-> status_code, detail |-> detail]
OtherException(name) == [exc |-> name, status_code |-> 0, detail |-> name]
NoException == [exc |-> "", status_code |-> 0, detail |-> ""]

Returned(text) == [ok |-> TRUE, text |-> text, exc |-> NoException]
Raised(e) == [ok |-> FALSE, text |-> <<>>, exc |-> e]

\* A fault: a failed call answers with a canned reply document.
call_gemini_api_fallback(outcome) ==
    IF outcome.fault \/ outcome.text = <<>>
    THEN Returned(<<"doc_reply_str">>)
    ELSE Returned(strip(outcome.text))

\* call_gemini_api, given what the provider call ends in.  The HTTPException
\* for an empty response is raised inside the try block and is wrapped again
\* by its except clause.
call_gemini_api(outcome) ==
    IF outcome.fault
    THEN Raised(HTTPException(500, "Failed to call Gemini API: provider fault"))
    ELSE IF outcome.text # <<>>
    THEN Returned(strip(outcome.text))
    ELSE Raised(HTTPException(500, "Failed to call Gemini API: 500: Gemini API returned empty response"))

\* A fault: an empty completion is answered as an empty text.
call_groq_api_empty_text(outcome) ==
    IF outcome.fault
    THEN Raised(HTTPException(500, "Failed to call Groq API: provider fault"))
    ELSE Returned(strip(outcome.text))

\* call_groq_api, likewise.
call_groq_api(outcome) ==
    IF outcome.fault
    THEN Raised(HTTPException(500, "Failed to call Groq API: provider fault"))
    ELSE IF outcome.text # <<>>
    THEN Returned(strip(outcome.text))
    ELSE Raised(HTTPException(500, "Failed to call Groq API: 500: Groq API returned empty response"))

-----------------------------------------------------------------------------
(* Requests *)

\* An uploaded file: its declared content type and whether PIL can open it.
NoFile == [present |-> FALSE, content_type |-> None, decodable |-> FALSE]
Upload(content_type, decodable) ==
    [present |-> TRUE, content_type |-> content_type, decodable |-> decodable]

Files ==
    { NoFile,
      Upload("image/png", TRUE), Upload("image/png", FALSE),
      Upload("image/heic", FALSE), Upload("image/gif", TRUE),
      Upload(None, TRUE) }

Request(m, original_message, resp, mood, personal_ctx, opener_type, ctx, situation, file) ==
    [ mode |-> m, original_message |-> original_message, response |-> resp,
      mood |-> mood, personal_context |-> personal_ctx,
      opener_type |-> opener_type, context |-> ctx,
      situation_description |-> situation, file |-> file ]

Texts == {None, "", "txt"}
Contexts == {None, "", " ", "ctx"}
Moods == {None, "", "casual", "slap_back", "sarcastic", "Casual"}
OpenerTypes == {None, "", "would_you_rather", "Would you rather..."}

\* What the fields that belong to the other modes hold: nothing, or a value.
Foreign == {None, "other"}

\* The requests considered: each mode (in two spellings for mode1 and mode3)
\* with every combination of its own fields and of the upload, the other
\* modes' fields all absent or all supplied; and an unknown mode.
Requests ==
    {Request(m, om, r, md, p, f, f, f, fl) :
        m \in {"mode1", "MODE1"}, om \in Texts, r \in Texts, md \in Moods,
        p \in Contexts, f \in Foreign, fl \in Files}
    \cup
    {Request("mode2", f, f, f, f, ot, c, f, fl) :
        ot \in OpenerTypes, c \in Contexts, f \in Foreign, fl \in Files}
    \cup
    {Request(m, f, f, md, f, f, f, sd, fl) :
        m \in {"mode3", "Mode3"}, md \in Moods, sd \in Texts, f \in Foreign,
        fl \in Files}
    \cup
    {Request("mode4", f, f, f, f, f, f, f, fl) : f \in Foreign, fl \in Files}

\* A fault: the mode is compared as it was sent.
lower_missing(s) == s

\* str.lower() on the mode spellings above.
lower(s) ==
    CASE s = "MODE1" -> "mode1"
      [] s = "Mode3" -> "mode3"
      [] OTHER -> s

-----------------------------------------------------------------------------
(* unified_chat *)

AllowedTypes == {"image/png", "image/jpeg", "image/webp", "image/heic", "image/heif"}

BadFileType == "File must be one of: PNG, JPEG, WEBP, HEIC, HEIF"
Mode1Requires == "Mode1 requires 'original_message' and 'response' fields"
Mode2Requires == "Mode2 requires 'opener_type' field"
Mode3Requires == "Mode3 requires 'situation_description' field"
InvalidMode == "Invalid mode. Must be 'mode1', 'mode2', or 'mode3'"
ParsingFailed == "Response parsing failed"
MissingReply == "Missing 'reply' in response"

\* A fault: the content type of the upload is not checked.
ImageStepAnyType(m, file) ==
    IF m \in {"mode1", "mode3"} /\ file.present
    THEN IF ~file.decodable
         THEN [next |-> "raise", exc |-> OtherException("UnidentifiedImageError")]
         ELSE [next |-> "vision", exc |-> NoException]
    ELSE [next |-> "dispatch", exc |-> NoException]

\* A fault: the image is handled whatever the mode.
ImageStepAnyMode(m, file) ==
    IF file.present
    THEN IF ~Truthy(file.content_type) \/ file.content_type \notin AllowedTypes
         THEN [next |-> "raise", exc |-> HTTPException(400, BadFileType)]
         ELSE IF ~file.decodable
         THEN [next |-> "raise", exc |-> OtherException("UnidentifiedImageError")]
         ELSE [next |-> "vision", exc |-> NoException]
    ELSE [next |-> "dispatch", exc |-> NoException]

\* Lines 355-368: whether the vision extractor is to be called, for the
\* lower-cased mode m.
ImageStep(m, file) ==
    IF m \in {"mode1", "mode3"} /\ file.present
    THEN IF ~Truthy(file.content_type) \/ file.content_type \notin AllowedTypes
         THEN [next |-> "raise", exc |-> HTTPException(400, BadFileType)]
         ELSE IF ~file.decodable
         THEN [next |-> "raise", exc |-> OtherException("UnidentifiedImageError")]
         ELSE [next |-> "vision", exc |-> NoException]
    ELSE [next |-> "dispatch", exc |-> NoException]

ContextType(m) == IF m = "mode3" THEN "curveball" ELSE "general"

\* The required-field check of each mode.
MissingFields(m, r) ==
    CASE m = "mode1" -> ~Truthy(r.original_message) \/ ~Truthy(r.response)
      [] m = "mode2" -> ~Truthy(r.opener_type)
      [] m = "mode3" -> ~Truthy(r.situation_description)
      [] OTHER -> FALSE

Requires(m) ==
    CASE m = "mode1" -> Mode1Requires
      [] m = "mode2" -> Mode2Requires
      [] OTHER -> Mode3Requires

\* `mood or "casual"`
MoodOrCasual(mood) == IF Truthy(mood) THEN mood ELSE "casual"

\* The prompt each mode builds.
BuildPrompt(m, r, image_ctx) ==
    CASE m = "mode1" ->
            build_mode1_prompt(r.original_message, r.response,
                               MoodOrCasual(r.mood), r.personal_context, image_ctx)
      [] m = "mode2" -> build_mode2_prompt(r.opener_type, r.context)
      [] OTHER -> build_mode3_prompt(r.situation_description, MoodOrCasual(r.mood), image_ctx)

\* A fault: every mode calls the Gemini client.
ApiGeminiOnly(m) == "gemini"

\* The generation client each mode calls.
Api(m) == IF m = "mode2" THEN "groq" ELSE "gemini"

CallApi(api, outcome) ==
    IF api = "groq" THEN call_groq_api(outcome) ELSE call_gemini_api(outcome)

\* Python `x in v` and v[x] for a string x; both raise TypeError on values
\* that do not support them.
SupportsIn(v) == v.type \in {"dict", "list", "str"}
SupportsKey(v) == v.type = "dict"

NoBody == [keys |-> {}, reply |-> NoValue]
ReplyBody(v) == [keys |-> {"reply"}, reply |-> v]

Return(v) == [ok |-> TRUE, body |-> ReplyBody(v), exc |-> NoException]
Raise(e) == [ok |-> FALSE, body |-> NoBody, exc |-> e]

\* The checks made on the value of parse_json_response, and the return.
Classify(res) ==
    IF ~SupportsIn(res) THEN Raise(OtherException("TypeError"))
    ELSE IF "error" \in res.members
    THEN IF SupportsKey(res) THEN Raise(HTTPException(500, ParsingFailed))
         ELSE Raise(OtherException("TypeError"))
    ELSE IF "reply" \notin res.members
    THEN Raise(HTTPException(500, MissingReply))
    ELSE IF SupportsKey(res) THEN Return(res.reply)
    ELSE Raise(OtherException("TypeError"))

\* A fault: the clause that lets an HTTPException pass is missing.
OuterHandlerCatchAll(e) == HTTPException(500, e.detail)

\* The handlers around the body of unified_chat: an HTTPException passes,
\* any other exception becomes status 500.
OuterHandler(e) ==
    IF e.exc = "HTTPException" THEN e ELSE HTTPException(500, e.detail)

\* What the caller receives; raised keeps the exception as it left the body
\* of unified_chat, before the outer handlers.
Pending == [status |-> 0, detail |-> "", body |-> NoBody, raised |-> NoException]
Success(body) == [status |-> 200, detail |-> "", body |-> body, raised |-> NoException]
Failure(e) ==
    [status |-> OuterHandler(e).status_code, detail |-> OuterHandler(e).detail,
     body |-> [keys |-> {"detail"}, reply |-> NoValue], raised |-> e]

\* How a provider call ended, as the provider saw it.
OutcomeKind(outcome) ==
    IF outcome.fault THEN "fault" ELSE IF outcome.text = <<>> THEN "empty" ELSE "text"

\* An entry of the log: a provider call with its argument, the end of a
\* provider call with its outcome, or a step of the pipeline.
Event(ev, provider, ctype, outcome, p) ==
    [ev |-> ev, provider |-> provider, ctype |-> ctype, outcome |-> outcome,
     prompt |-> p]

-----------------------------------------------------------------------------
(* ChatbotService (src/app/services/chatbot/chatbot.py): personalization *)

\* list(self.PMOOD_DEFINITIONS.keys()): a dict keeps its insertion order.
PmoodKeys == <<"pmood1", "pmood2", "pmood3", "pmood4", "pmood5">>

\* PMOOD_DEFINITIONS; each description is carried by its opening words.
PMOOD_DEFINITIONS ==
    [ pmood1 |-> "Bold Energy: Make every word count with impact and strength.",
      pmood2 |-> "Confidence in Every Word: Express yourself with unwavering self-assurance and poise.",
      pmood3 |-> "Fun Vibes Only: Keep it light, playful, and effortlessly entertaining.",
      pmood4 |-> "Soft but Strong: Balance warmth with confidence.",
      pmood5 |-> "Flirty Vibes: Add subtle playfulness and romantic intrigue." ]

PmoodHeader == "PERSONALIZATION LAYER - Apply these personality traits to your response:"
PmoodClosing == "Blend these traits naturally into your response without being heavy-handed."

\* An Optional[List[str]] argument: absent (None) or a list.
NoList == [some |-> FALSE, val |-> <<>>]
SomeList(l) == [some |-> TRUE, val |-> l]

\* Python `x in list`.
InList(x, l) == \E i \in DOMAIN l : l[i] = x

\* [f(x) for x in l if keep(x)] for the two comprehensions of the builder.
RECURSIVE ActiveMoods(_, _)
ActiveMoods(all_moods, off) ==
    IF all_moods = <<>> THEN <<>>
    ELSE IF InList(Head(all_moods), off)
         THEN ActiveMoods(Tail(all_moods), off)
         ELSE <<Head(all_moods)>> \o ActiveMoods(Tail(all_moods), off)

RECURSIVE MoodDescriptions(_)
MoodDescriptions(active_moods) ==
    IF active_moods = <<>> THEN <<>>
    ELSE IF Head(active_moods) \in DOMAIN PMOOD_DEFINITIONS
         THEN <<PMOOD_DEFINITIONS[Head(active_moods)]>> \o MoodDescriptions(Tail(active_moods))
         ELSE MoodDescriptions(Tail(active_moods))

\* A fault: the list of disabled traits is ignored.
build_pmood_instruction_all_on(off) ==
    <<PmoodHeader>> \o MoodDescriptions(PmoodKeys) \o <<PmoodClosing>>

\* A fault: only the first entry of the list is honoured.
build_pmood_instruction_first_only(off) ==
    LET active_moods == IF off.some /\ Len(off.val) > 0
                        THEN ActiveMoods(PmoodKeys, <<off.val[1]>>)
                        ELSE PmoodKeys
        mood_descriptions == MoodDescriptions(active_moods)
    IN  IF mood_descriptions = <<>> THEN <<>>
        ELSE <<PmoodHeader>> \o mood_descriptions \o <<PmoodClosing>>

\* ChatbotService._build_pmood_instruction; the empty text is <<>>.
build_pmood_instruction(off) ==
    LET all_moods == PmoodKeys
        active_moods == IF off.some /\ Len(off.val) > 0
                        THEN ActiveMoods(all_moods, off.val)
                        ELSE all_moods
        mood_descriptions == MoodDescriptions(active_moods)
    IN  IF active_moods = <<>> THEN <<>>
        ELSE IF mood_descriptions = <<>> THEN <<>>
        ELSE <<PmoodHeader>> \o mood_descriptions \o <<PmoodClosing>>

-----------------------------------------------------------------------------
(* ChatbotService (src/app/services/chatbot/chatbot.py): the generators *)

MODE1_TONES ==
    [ casual |-> "Keep the tone light, friendly, and conversational.",
      flirty |-> "Add a playful, charming tone with light teasing.",
      nonchalant |-> "Maintain a cool, unbothered attitude." ]

MODE2_PATTERNS ==
    << "If you...", "Between...", "If I was...", "Would you rather...",
       "What is something that...", "In a situation where...", "How would you handle..." >>

MODE3_MOODS ==
    [ casual |-> "Keep it light, relaxed, and easy-going.",
      apologetic |-> "Be understanding and apologetic.",
      encouraging |-> "Be positive, supportive, and uplifting.",
      sarcastic |-> "Use witty sarcasm and humor to deflect or address the situation playfully (not mean).",
      curious |-> "Show genuine interest and curiosity.",
      flirty |-> "Turn the awkward moment into a playful, flirty opportunity while staying smooth.",
      empathetic |-> "Show deep understanding and emotional connection." ]

\* What self.client.chat.completions.create ends in: an exception, a
\* completion whose message content is None, or one with a content.
GroqFault == [kind |-> "fault", text |-> <<>>]
GroqNone == [kind |-> "none", text |-> <<>>]
GroqContent(t) == [kind |-> "content", text |-> t]

\* ChatbotService._call_groq: the content stripped; an exception of the
\* call, or of None.strip(), is logged and raised again.
call_groq(answer) ==
    IF answer.kind = "fault" THEN Raised(OtherException("APIError"))
    ELSE IF answer.kind = "none" THEN Raised(OtherException("AttributeError"))
    ELSE Returned(strip(answer.text))

\* `context and len(context.strip()) > 0` for an Optional[str] context.
HasContext(c) == TruthyContext(c) /\ Len(strip(c.val)) > 0

\* The user prompt of a generator: the fields it quotes, its tone or
\* pattern line, the context line if any, the personalization text.
UserPrompt(fields, tone_instruction, ctx_line, pmood_instruction) ==
    [fields |-> fields, tone_instruction |-> tone_instruction,
     ctx_line |-> ctx_line, pmood_instruction |-> pmood_instruction]

NoUserPrompt == UserPrompt(<<>>, "", <<>>, <<>>)

\* What a generator did: the prompt it sent and how it ended.
Generated(p, r) == [messages |-> p, result |-> r]
NotGenerated == Generated(NoUserPrompt, Returned(<<>>))

Mode1ToneInstruction(tone, c) ==
    IF HasContext(c) THEN "Shape your response based on this context"
    ELSE DictGet(MODE1_TONES, IF Truthy(tone) THEN tone ELSE "casual", MODE1_TONES["casual"])

\* A fault: the exception of the provider call leaves the generator.
generate_mode1_reply_raising(opposite_message, user_message, tone, c, off, answer) ==
    Generated(UserPrompt(<<opposite_message, user_message>>, Mode1ToneInstruction(tone, c),
                         IF HasContext(c) THEN c.val ELSE <<>>, build_pmood_instruction(off)),
              call_groq(answer))

\* ChatbotService.generate_mode1_reply, given what the provider call ends in.
generate_mode1_reply(opposite_message, user_message, tone, c, off, answer) ==
    Generated(UserPrompt(<<opposite_message, user_message>>, Mode1ToneInstruction(tone, c),
                         IF HasContext(c) THEN c.val ELSE <<>>, build_pmood_instruction(off)),
              IF call_groq(answer).ok THEN Returned(call_groq(answer).text)
              ELSE Returned(<<"That's cool! ", user_message>>))

\* Lines 248-251: the pattern of mode2 after its two defaults.
Mode2Pattern(mood) ==
    IF Truthy(mood) /\ InList(mood, MODE2_PATTERNS) THEN mood ELSE MODE2_PATTERNS[1]

\* ChatbotService.generate_mode2_opener.
generate_mode2_opener(mood, c, off, answer) ==
    Generated(UserPrompt(<<>>, Mode2Pattern(mood),
                         IF HasContext(c) THEN c.val ELSE <<>>, build_pmood_instruction(off)),
              IF call_groq(answer).ok THEN Returned(call_groq(answer).text)
              ELSE Returned(<<Mode2Pattern(mood), " something interesting?">>))

\* Lines 296-300: the mood of mode3 after its defaults.
Mode3Mood(mood) ==
    IF Truthy(mood) /\ mood \in DOMAIN MODE3_MOODS THEN mood ELSE "casual"

Mode3FallbackReply == "I'm not quite sure how to respond to that, but let's keep talking!"

\* ChatbotService.generate_mode3_curveball.
generate_mode3_curveball(situation, mood, off, answer) ==
    Generated(UserPrompt(<<situation>>, DictGet(MODE3_MOODS, Mode3Mood(mood), MODE3_MOODS["casual"]),
                         <<>>, build_pmood_instruction(off)),
              IF call_groq(answer).ok THEN Returned(call_groq(answer).text)
              ELSE Returned(<<Mode3FallbackReply>>))

\* str.find("{") / str.rfind("}"): the documents of a text that are objects.
Braced(text) ==
    {i \in DOMAIN text : text[i] \in DOMAIN JsonDocs /\ JsonDocs[text[i]].type = "dict"}

Min(S) == CHOOSE x \in S : \A y \in S : x <= y
Max(S) == CHOOSE x \in S : \A y \in S : x >= y

\* analyze_mode1_context and analyze_mode2_intent: the answer parsed, or
\* the stretch from the first "{" to the last "}" parsed, or the default
\* dict; every exception ends in the default dict.
Analyze(answer) ==
    LET r == call_groq(answer)
        braces == Braced(r.text)
        inner == SubSeq(r.text, Min(braces), Max(braces))
    IN  IF ~r.ok THEN "default"
        ELSE IF json_loads(r.text).ok THEN "parsed"
        ELSE IF braces = {} THEN "default"
        ELSE IF json_loads(inner).ok THEN "extracted"
        ELSE "default"

\* ChatRequest (chatbot_schema.py); mode_type was validated against ModeType.
ChatRequest(mode_type, opposite_person_message, user_message, tone, mood, situation, c, pmoods) ==
    [ mode_type |-> mode_type, opposite_person_message |-> opposite_person_message,
      user_message |-> user_message, mode |-> tone, mood |-> mood,
      situation_description |-> situation, context |-> c, pmoods |-> pmoods ]

NoChatRequest == ChatRequest("", None, None, None, None, None, NoContext, NoList)

\* Mode1Response, Mode2Response, Mode3Response: each declares the one
\* required field reply: str.
ResponseModelFields == {"reply"}

\* Construction of a pydantic model from keyword arguments: a required
\* field that is not given raises ValidationError (a ValueError); keyword
\* arguments that are no field of the model are dropped.
Construct(fields, kwargs) ==
    IF fields \subseteq kwargs
    THEN [raised |-> FALSE, exc |-> NoException, keys |-> fields]
    ELSE [raised |-> TRUE, exc |-> OtherException("ValidationError"), keys |-> {}]

\* What get_response ends in: a ChatResponse with one mode response set,
\* whose keys and generated text are kept, or an exception.
ChatResponse(mode_type, holder, keys, text_key, text) ==
    [ raised |-> FALSE, exc |-> NoException, mode_type |-> mode_type,
      holder |-> holder, keys |-> keys, text_key |-> text_key, text |-> text ]
ChatRaised(e) ==
    [ raised |-> TRUE, exc |-> e, mode_type |-> "",
      holder |-> "", keys |-> {}, text_key |-> "", text |-> <<>> ]
NoChatResponse == ChatResponse("", "", {}, "", <<>>)

\* get_response is not running.
GetResponseIdle ==
    /\ request = NoChatRequest
    /\ analysis = ""
    /\ groq_answer = GroqNone
    /\ generated = NotGenerated
    /\ chat_response = NoChatResponse

\* The service is not part of the unified endpoint.
ServiceIdle == pmoods_off = NoList /\ instruction = <<>> /\ GetResponseIdle

\* No concurrent requests: the request of the pipeline is served alone.
LoopIdle == tasks = <<>> /\ running = 0

Init ==
    /\ req \in Requests
    /\ pc = "start"
    /\ mode = req.mode
    /\ context_type = ""
    /\ image_context = NoContext
    /\ prompt = NoPrompt
    /\ raw_response = <<>>
    /\ result = PyNothing
    /\ response = Pending
    /\ log = <<>>
    /\ ServiceIdle
    /\ LoopIdle

\* Lines 350-368: lower-case the mode, decide on the image, up to the call
\* of the vision extractor.
Begin ==
    /\ pc = "start"
    /\ LET m == lower(req.mode)
           step == ImageStep(m, req.file)
       IN  /\ mode' = m
           /\ IF step.next = "raise"
              THEN /\ pc' = "done"
                   /\ response' = Failure(step.exc)
                   /\ UNCHANGED <<context_type, log>>
              ELSE IF step.next = "vision"
              THEN /\ pc' = "vision"
                   /\ context_type' = ContextType(m)
                   /\ log' = Append(log, Event("vision_call", "gemini", ContextType(m), "", NoPrompt))
                   /\ UNCHANGED response
              ELSE /\ pc' = "dispatch"
                   /\ UNCHANGED <<context_type, log, response>>
    /\ UNCHANGED <<req, image_context, prompt, raw_response, result>>
    /\ UNCHANGED <<service, loop>>

\* Line 371: the vision extractor returns.
VisionReturn ==
    /\ pc = "vision"
    /\ \E outcome \in VisionOutcomes :
         LET r == extract_context_from_image(outcome)
         IN  IF r.raised
             THEN /\ pc' = "done"
                  /\ response' = Failure(OtherException("vision fault"))
                  /\ log' = Append(log, Event("vision_return", "gemini", context_type, OutcomeKind(outcome), NoPrompt))
                  /\ UNCHANGED image_context
             ELSE /\ pc' = "dispatch"
                  /\ image_context' = r.value
                  /\ log' = Append(log, Event("vision_return", "gemini", context_type, OutcomeKind(outcome), NoPrompt))
                  /\ UNCHANGED response
    /\ UNCHANGED <<req, mode, context_type, prompt, raw_response, result>>
    /\ UNCHANGED <<service, loop>>

\* A fault: the prompt is built before the vision extractor has answered.
DispatchEarlyPrompt ==
    /\ pc = "dispatch"
    /\ IF mode \notin {"mode1", "mode2", "mode3"}
       THEN /\ pc' = "done"
            /\ response' = Failure(HTTPException(400, InvalidMode))
            /\ UNCHANGED <<prompt, log>>
       ELSE IF MissingFields(mode, req)
       THEN /\ pc' = "done"
            /\ response' = Failure(HTTPException(400, Requires(mode)))
            /\ UNCHANGED <<prompt, log>>
       ELSE /\ pc' = "generate"
            /\ prompt' = BuildPrompt(mode, req, NoContext)
            /\ log' = log \o << Event("prompt_built", "", "", "", BuildPrompt(mode, req, NoContext)),
                                Event("generation_call", Api(mode), "", "", BuildPrompt(mode, req, NoContext)) >>
            /\ UNCHANGED response
    /\ UNCHANGED <<req, mode, context_type, image_context, raw_response, result>>
    /\ UNCHANGED <<service, loop>>

\* Lines 374-391, 405-419, 433-448, 461-465: the branch of the mode, up to
\* the call of its generation client.
Dispatch ==
    /\ pc = "dispatch"
    /\ IF mode \notin {"mode1", "mode2", "mode3"}
       THEN /\ pc' = "done"
            /\ response' = Failure(HTTPException(400, InvalidMode))
            /\ UNCHANGED <<prompt, log>>
       ELSE IF MissingFields(mode, req)
       THEN /\ pc' = "done"
            /\ response' = Failure(HTTPException(400, Requires(mode)))
            /\ UNCHANGED <<prompt, log>>
       ELSE /\ pc' = "generate"
            /\ prompt' = BuildPrompt(mode, req, image_context)
            /\ log' = log \o << Event("prompt_built", "", "", "", BuildPrompt(mode, req, image_context)),
                                Event("generation_call", Api(mode), "", "", BuildPrompt(mode, req, image_context)) >>
            /\ UNCHANGED response
    /\ UNCHANGED <<req, mode, context_type, image_context, raw_response, result>>
    /\ UNCHANGED <<service, loop>>

\* A fault: a failed generation call is issued a second time.
GenerationReturnRetry ==
    /\ pc = "generate"
    /\ \E outcome \in GenerationOutcomes :
         LET r == CallApi(Api(mode), outcome)
             res == parse_json_response(r.text)
             out == Classify(res)
             calls == {i \in DOMAIN log : log[i].ev = "generation_call"}
         IN  IF ~r.ok /\ Cardinality(calls) < 2
             THEN /\ pc' = "generate"
                  /\ log' = log \o << Event("generation_return", Api(mode), "", OutcomeKind(outcome), prompt),
                                      Event("generation_call", Api(mode), "", "", prompt) >>
                  /\ UNCHANGED <<raw_response, result, response>>
             ELSE IF ~r.ok
             THEN /\ pc' = "done"
                  /\ response' = Failure(r.exc)
                  /\ log' = Append(log, Event("generation_return", Api(mode), "", OutcomeKind(outcome), prompt))
                  /\ UNCHANGED <<raw_response, result>>
             ELSE /\ pc' = "done"
                  /\ raw_response' = r.text
                  /\ result' = res
                  /\ response' = IF out.ok THEN Success(out.body) ELSE Failure(out.exc)
                  /\ log' = log \o << Event("generation_return", Api(mode), "", OutcomeKind(outcome), prompt),
                                      Event("normalize", "", "", "", prompt) >>
    /\ UNCHANGED <<req, mode, context_type, image_context, prompt>>
    /\ UNCHANGED <<service, loop>>

\* Lines 391-402, 419-430, 448-459: the generation client returns; the text
\* is parsed, checked and answered.
GenerationReturn ==
    /\ pc = "generate"
    /\ \E outcome \in GenerationOutcomes :
         LET r == CallApi(Api(mode), outcome)
             res == parse_json_response(r.text)
             out == Classify(res)
         IN  IF ~r.ok
             THEN /\ response' = Failure(r.exc)
                  /\ log' = Append(log, Event("generation_return", Api(mode), "", OutcomeKind(outcome), prompt))
                  /\ UNCHANGED <<raw_response, result>>
             ELSE /\ raw_response' = r.text
                  /\ result' = res
                  /\ response' = IF out.ok THEN Success(out.body) ELSE Failure(out.exc)
                  /\ log' = log \o << Event("generation_return", Api(mode), "", OutcomeKind(outcome), prompt),
                                      Event("normalize", "", "", "", prompt) >>
    /\ pc' = "done"
    /\ UNCHANGED <<req, mode, context_type, image_context, prompt>>
    /\ UNCHANGED <<service, loop>>

Next == Begin \/ VisionReturn \/ Dispatch \/ GenerationReturn

Spec == Init /\ [][Next]_vars

-----------------------------------------------------------------------------
(* parse_json_response on its own *)

NoRequest == Request("", None, None, None, None, None, None, None, NoFile)

InitParse ==
    /\ req = NoRequest
    /\ pc = "parse"
    /\ mode = ""
    /\ context_type = ""
    /\ image_context = NoContext
    /\ prompt = NoPrompt
    /\ raw_response \in RawTexts
    /\ result = PyNothing
    /\ response = Pending
    /\ log = <<>>
    /\ ServiceIdle
    /\ LoopIdle

Parse ==
    /\ pc = "parse"
    /\ result' = parse_json_response(raw_response)
    /\ pc' = "parsed"
    /\ UNCHANGED <<req, mode, context_type, image_context, prompt, raw_response,
                   response, log>>
    /\ UNCHANGED <<service, loop>>

NextParse == Parse

SpecParse == InitParse /\ [][NextParse]_vars

-----------------------------------------------------------------------------
(* ChatbotService._build_pmood_instruction on its own *)

\* Identifiers a caller may put in the list: the five traits and a foreign one.
TraitNames == {PmoodKeys[i] : i \in DOMAIN PmoodKeys} \cup {"pmood6"}

OffLists ==
    {NoList} \cup {SomeList(l) : l \in UNION {[1..n -> TraitNames] : n \in 0..MaxOff}}

InitPmood ==
    /\ req = NoRequest
    /\ pc = "pmood"
    /\ mode = ""
    /\ context_type = ""
    /\ image_context = NoContext
    /\ prompt = NoPrompt
    /\ raw_response = <<>>
    /\ result = PyNothing
    /\ response = Pending
    /\ log = <<>>
    /\ pmoods_off \in OffLists
    /\ instruction = <<>>
    /\ GetResponseIdle
    /\ LoopIdle

BuildPmood ==
    /\ pc = "pmood"
    /\ instruction' = build_pmood_instruction(pmoods_off)
    /\ pc' = "blended"
    /\ UNCHANGED <<req, mode, context_type, image_context, prompt, raw_response,
                   result, response, log, pmoods_off>>
    /\ UNCHANGED <<loop, entry>>

NextPmood == BuildPmood

SpecPmood == InitPmood /\ [][NextPmood]_vars

-----------------------------------------------------------------------------
(* Concurrent requests on one event loop                                   *)
(*                                                                         *)
(* unified_chat is an async def, so the server runs every request as a     *)
(* task of its single-threaded event loop.  A task keeps the thread until  *)
(* it awaits something that suspends.  call_groq_api, call_gemini_api and  *)
(* extract_context_from_image are async def, but their bodies call the     *)
(* provider SDKs synchronously (lines 243, 264, 292) and contain no await: *)
(* awaiting them does not release the thread.  The only other await is     *)
(* file.read() (line 367), which suspends when the upload was spooled to   *)
(* disk and returns at once when it is held in memory.                     *)

TaskIds == 1..NumRequests

\* The requests served together: two of mode1 that differ in every field,
\* one with an image; one of mode2; one whose upload is refused.
LoopRequests ==
    { Request("mode1", "txt", "txt", "casual", None, None, None, None, Upload("image/png", TRUE)),
      Request("mode1", "txt", "txt", "sarcastic", "ctx", None, None, None, NoFile),
      Request("mode2", None, None, None, None, "would_you_rather", None, None, NoFile),
      Request("mode3", None, None, None, None, None, None, "txt", Upload("image/gif", TRUE)) }

LoopVisionOutcomes == {ProviderFault, ProviderText(<<"description">>)}
LoopGenerationOutcomes ==
    {ProviderFault, ProviderText(<<"doc_reply_str">>), ProviderText(<<Prose>>)}

\* No answer of a provider received (yet).
NoAnswer == ProviderText(<<>>)

\* The frame of one call of unified_chat: its argument, its position, its
\* locals, the answers its provider calls got, and what its caller receives.
Task(r) ==
    [ req |-> r, pc |-> "start", mode |-> r.mode, context_type |-> "",
      image_context |-> NoContext, prompt |-> NoPrompt,
      vision |-> NoAnswer, generation |-> NoAnswer, response |-> Pending ]

InitLoop ==
    /\ req = NoRequest
    /\ pc = "loop"
    /\ mode = ""
    /\ context_type = ""
    /\ image_context = NoContext
    /\ prompt = NoPrompt
    /\ raw_response = <<>>
    /\ result = PyNothing
    /\ response = Pending
    /\ log = <<>>
    /\ ServiceIdle
    /\ tasks \in [TaskIds -> {Task(r) : r \in LoopRequests}]
    /\ running = 0

LoopUnchanged ==
    UNCHANGED <<req, pc, mode, context_type, image_context, prompt, raw_response,
                result, response, log, service>>

\* Lines 350-364: the loop starts the handler of a request; it runs up to
\* the MIME check and, for an accepted upload, to the await of file.read().
LoopBegin(t) ==
    /\ running = 0
    /\ tasks[t].pc = "start"
    /\ LET m == lower(tasks[t].req.mode)
           step == ImageStep(m, tasks[t].req.file)
       IN  IF step.next = "raise" /\ step.exc.exc = "HTTPException"
           THEN /\ tasks' = [tasks EXCEPT ![t].mode = m, ![t].pc = "done",
                                          ![t].response = Failure(step.exc)]
                /\ running' = 0
           ELSE IF step.next = "dispatch"
           THEN /\ tasks' = [tasks EXCEPT ![t].mode = m, ![t].pc = "dispatch"]
                /\ running' = t
           ELSE /\ tasks' = [tasks EXCEPT ![t].mode = m, ![t].pc = "read",
                                          ![t].context_type = ContextType(m)]
                /\ running' = t
    /\ LoopUnchanged

\* Line 367: await file.read().  An upload spooled to disk is read in a
\* worker thread and the task is suspended; one held in memory is read at
\* once, without leaving the thread.
LoopRead(t) ==
    /\ running = t
    /\ tasks[t].pc = "read"
    /\ \E spooled \in BOOLEAN :
         IF spooled
         THEN /\ tasks' = [tasks EXCEPT ![t].pc = "reading"]
              /\ running' = 0
         ELSE /\ tasks' = [tasks EXCEPT ![t].pc = "open"]
              /\ running' = t
    /\ LoopUnchanged

\* Line 367: the read is over and the loop resumes the task.
LoopResume(t) ==
    /\ running = 0
    /\ tasks[t].pc = "reading"
    /\ tasks' = [tasks EXCEPT ![t].pc = "open"]
    /\ running' = t
    /\ LoopUnchanged

\* Lines 368-371 and 243: Image.open, then the entry of the vision
\* extractor, whose synchronous provider call keeps the thread.
LoopOpen(t) ==
    /\ running = t
    /\ tasks[t].pc = "open"
    /\ IF tasks[t].req.file.decodable
       THEN /\ tasks' = [tasks EXCEPT ![t].pc = "vision"]
            /\ running' = t
       ELSE /\ tasks' = [tasks EXCEPT ![t].pc = "done",
                            ![t].response = Failure(OtherException("UnidentifiedImageError"))]
            /\ running' = 0
    /\ LoopUnchanged

\* Lines 243-255 and 371: the vision provider answers; the thread was held
\* by the task all the while.
LoopVisionReturn(t) ==
    /\ running = t
    /\ tasks[t].pc = "vision"
    /\ \E outcome \in LoopVisionOutcomes :
         LET r == extract_context_from_image(outcome)
         IN  IF r.raised
             THEN /\ tasks' = [tasks EXCEPT ![t].pc = "done", ![t].vision = outcome,
                                  ![t].response = Failure(OtherException("vision fault"))]
                  /\ running' = 0
             ELSE /\ tasks' = [tasks EXCEPT ![t].pc = "dispatch", ![t].vision = outcome,
                                  ![t].image_context = r.value]
                  /\ running' = t
    /\ LoopUnchanged

\* A fault: the prompt of a mode is kept between requests and used again.
LoopDispatchCached(t) ==
    /\ running = t
    /\ tasks[t].pc = "dispatch"
    /\ LET m == tasks[t].mode
           built == {u \in TaskIds : u # t /\ tasks[u].mode = m /\ tasks[u].prompt # NoPrompt}
       IN  IF m \notin {"mode1", "mode2", "mode3"}
           THEN /\ tasks' = [tasks EXCEPT ![t].pc = "done",
                                ![t].response = Failure(HTTPException(400, InvalidMode))]
                /\ running' = 0
           ELSE IF MissingFields(m, tasks[t].req)
           THEN /\ tasks' = [tasks EXCEPT ![t].pc = "done",
                                ![t].response = Failure(HTTPException(400, Requires(m)))]
                /\ running' = 0
           ELSE /\ tasks' = [tasks EXCEPT ![t].pc = "generate",
                                ![t].prompt = IF built # {}
                                              THEN tasks[CHOOSE u \in built : TRUE].prompt
                                              ELSE BuildPrompt(m, tasks[t].req, tasks[t].image_context)]
                /\ running' = t
    /\ LoopUnchanged

\* Lines 374-391, 405-419, 433-448, 461-465: the branch of the mode, up to
\* the entry of its generation client, whose synchronous provider call
\* keeps the thread.
LoopDispatch(t) ==
    /\ running = t
    /\ tasks[t].pc = "dispatch"
    /\ LET m == tasks[t].mode
       IN  IF m \notin {"mode1", "mode2", "mode3"}
           THEN /\ tasks' = [tasks EXCEPT ![t].pc = "done",
                                ![t].response = Failure(HTTPException(400, InvalidMode))]
                /\ running' = 0
           ELSE IF MissingFields(m, tasks[t].req)
           THEN /\ tasks' = [tasks EXCEPT ![t].pc = "done",
                                ![t].response = Failure(HTTPException(400, Requires(m)))]
                /\ running' = 0
           ELSE /\ tasks' = [tasks EXCEPT ![t].pc = "generate",
                                ![t].prompt = BuildPrompt(m, tasks[t].req, tasks[t].image_context)]
                /\ running' = t
    /\ LoopUnchanged

\* Lines 264-277, 292-300 and 391-402, 419-430, 448-459: the generation
\* provider answers; the text is parsed, checked and answered, and the
\* handler returns the thread to the loop.
LoopGenerationReturn(t) ==
    /\ running = t
    /\ tasks[t].pc = "generate"
    /\ \E outcome \in LoopGenerationOutcomes :
         LET r == CallApi(Api(tasks[t].mode), outcome)
             out == Classify(parse_json_response(r.text))
         IN  tasks' = [tasks EXCEPT ![t].pc = "done", ![t].generation = outcome,
                          ![t].response = IF ~r.ok THEN Failure(r.exc)
                                          ELSE IF out.ok THEN Success(out.body)
                                          ELSE Failure(out.exc)]
    /\ running' = 0
    /\ LoopUnchanged

\* What the thread can do for request t.
LoopStep(t) ==
    \/ LoopBegin(t)
    \/ LoopRead(t)
    \/ LoopResume(t)
    \/ LoopOpen(t)
    \/ LoopVisionReturn(t)
    \/ LoopDispatch(t)
    \/ LoopGenerationReturn(t)

NextLoop == \E t \in TaskIds : LoopStep(t)

SpecLoop == InitLoop /\ [][NextLoop]_vars

-----------------------------------------------------------------------------
(* ChatbotService.get_response *)

ServiceContexts ==
    {NoContext, SomeContext(<<>>), SomeContext(<<" ">>), SomeContext(<<"ctx">>)}

ServicePmoods == {NoList, SomeList(<<"pmood1">>), SomeList(PmoodKeys)}

ChatRequests ==
    {ChatRequest("mode1", o, u, t, None, None, c, p) :
        o \in {None, "txt"}, u \in {None, "", "txt"}, t \in {None, "flirty", "bold"},
        c \in ServiceContexts, p \in ServicePmoods}
    \cup {ChatRequest("mode2", None, None, None, m, None, c, p) :
        m \in {None, "Would you rather...", "bold"}, c \in ServiceContexts, p \in ServicePmoods}
    \cup {ChatRequest("mode3", None, None, None, m, s, NoContext, p) :
        m \in {None, "curious", "bold"}, s \in {None, "", "txt"}, p \in ServicePmoods}

\* Answers of the provider to a generator: an exception, no content, an
\* empty content, a reply with white space around it.
GroqAnswers ==
    {GroqFault, GroqNone, GroqContent(<<>>), GroqContent(<<" ", "reply text", "\n">>)}

\* Answers of the provider to an analysis: an exception, a document, a
\* document inside prose, two documents, prose.
AnalysisAnswers ==
    { GroqFault, GroqContent(<<"doc_reply_str">>),
      GroqContent(<<Prose, "doc_empty_obj", Prose>>),
      GroqContent(<<"doc_empty_obj", Prose, "doc_empty_obj">>),
      GroqContent(<<Prose>>) }

\* Lines 345-346, 393-394, 413-414: the checks before any call.
ServiceInvalid(r) ==
    CASE r.mode_type = "mode1" -> ~Truthy(r.opposite_person_message) \/ ~Truthy(r.user_message)
      [] r.mode_type = "mode2" -> FALSE
      [] r.mode_type = "mode3" -> ~Truthy(r.situation_description)
      [] OTHER -> TRUE

\* The generator each mode calls, with request.pmoods as pmoods_off.
Generate(r, answer) ==
    CASE r.mode_type = "mode1" ->
            generate_mode1_reply(r.opposite_person_message, r.user_message, r.mode,
                                 r.context, r.pmoods, answer)
      [] r.mode_type = "mode2" -> generate_mode2_opener(r.mood, r.context, r.pmoods, answer)
      [] OTHER -> generate_mode3_curveball(r.situation_description, r.mood, r.pmoods, answer)

\* Lines 367-374, 383-391, 404-412: the ChatResponse built around the
\* generated text; mode3_response is a plain dict.
Respond(r, text) ==
    CASE r.mode_type = "mode1" ->
            LET m == Construct(ResponseModelFields, {"mode", "reply", "timestamp"})
            IN  IF m.raised THEN ChatRaised(m.exc)
                ELSE ChatResponse("mode1", "mode1_response", m.keys, "reply", text)
      [] r.mode_type = "mode2" ->
            LET m == Construct(ResponseModelFields, {"mood", "context_used", "opener", "timestamp"})
            IN  IF m.raised THEN ChatRaised(m.exc)
                ELSE ChatResponse("mode2", "mode2_response", m.keys, "reply", text)
      [] OTHER ->
            ChatResponse("mode3", "mode3_response", {"mood", "curveball_reply", "timestamp"},
                         "curveball_reply", text)

InitService ==
    /\ req = NoRequest
    /\ pc = "get_response"
    /\ mode = ""
    /\ context_type = ""
    /\ image_context = NoContext
    /\ prompt = NoPrompt
    /\ raw_response = <<>>
    /\ result = PyNothing
    /\ response = Pending
    /\ log = <<>>
    /\ pmoods_off = NoList
    /\ instruction = <<>>
    /\ LoopIdle
    /\ request \in ChatRequests
    /\ analysis = ""
    /\ groq_answer = GroqNone
    /\ generated = NotGenerated
    /\ chat_response = NoChatResponse

ServiceUnchanged ==
    UNCHANGED <<req, mode, context_type, image_context, prompt, raw_response,
                result, response, log, pmoods_off, instruction, loop, request>>

\* Lines 343-346, 393-394, 413-414: the branch of the mode and its check.
ServiceValidate ==
    /\ pc = "get_response"
    /\ IF ServiceInvalid(request)
       THEN /\ pc' = "done"
            /\ chat_response' = ChatRaised(OtherException("ValueError"))
       ELSE /\ pc' = IF request.mode_type = "mode3" THEN "generate" ELSE "analyze"
            /\ UNCHANGED chat_response
    /\ UNCHANGED <<analysis, groq_answer, generated>>
    /\ ServiceUnchanged

\* Lines 349-355, 377: the analysis call of mode1 and mode2.
ServiceAnalyze ==
    /\ pc = "analyze"
    /\ \E answer \in AnalysisAnswers : analysis' = Analyze(answer)
    /\ pc' = "generate"
    /\ UNCHANGED <<groq_answer, generated, chat_response>>
    /\ ServiceUnchanged

\* Lines 358-364, 380, 397-401: the generator call; an exception leaving
\* it would pass the handlers of get_response, which raise it again.
ServiceGenerate ==
    /\ pc = "generate"
    /\ \E answer \in GroqAnswers :
         /\ groq_answer' = answer
         /\ generated' = Generate(request, answer)
         /\ IF Generate(request, answer).result.ok
            THEN /\ pc' = "respond"
                 /\ UNCHANGED chat_response
            ELSE /\ pc' = "done"
                 /\ chat_response' = ChatRaised(Generate(request, answer).result.exc)
    /\ UNCHANGED analysis
    /\ ServiceUnchanged

\* Lines 367-374, 383-391, 404-412: the response is built and returned.
ServiceRespond ==
    /\ pc = "respond"
    /\ chat_response' = Respond(request, generated.result.text)
    /\ pc' = "done"
    /\ UNCHANGED <<analysis, groq_answer, generated>>
    /\ ServiceUnchanged

NextService == ServiceValidate \/ ServiceAnalyze \/ ServiceGenerate \/ ServiceRespond

SpecService == InitService /\ [][NextService]_vars

-----------------------------------------------------------------------------
(* Properties *)

Modes == {"mode1", "mode2", "mode3"}

Range(f) == {f[x] : x \in DOMAIN f}

LogIndex == DOMAIN log
Calls(ev) == {i \in LogIndex : log[i].ev = ev}
ProviderCalls == Calls("vision_call") \cup Calls("generation_call")
Ended(ev, kinds) == \E i \in LogIndex : log[i].ev = ev /\ log[i].outcome \in kinds

\* The upload passes the checks made before the vision call.
UsableImage(file) ==
    file.present /\ file.content_type \in AllowedTypes /\ file.decodable

\* C1: a request that lacks a field its mode requires ends in status 400
\* and no provider is contacted at any point of it.
C1_MissingFieldBeforeAnyProvider ==
    (lower(req.mode) \in Modes /\ MissingFields(lower(req.mode), req)) =>
        /\ ProviderCalls = {}
        /\ pc = "done" => response.status = 400

\* C2: with the required fields present, a vision call that raises or
\* returns nothing leaves image_context absent, and the request goes on: the
\* prompt carries no image context, the generation provider is called, and
\* the request does not end before the generation call has ended.
C2_VisionFailureIsNotFatal ==
    (Ended("vision_return", {"fault", "empty"}) /\ ~MissingFields(mode, req)) =>
        /\ image_context = NoContext
        /\ pc \in {"dispatch", "generate", "done"}
        /\ pc = "dispatch" => response = Pending
        /\ pc \in {"generate", "done"} =>
              /\ prompt # NoPrompt /\ prompt.img_text = <<>>
              /\ Cardinality(Calls("generation_call")) = 1
        /\ pc = "done" => Calls("generation_return") # {}

\* C2 witness: the vision call raised and the request ended in a reply.
C2_Witness ==
    /\ pc = "done"
    /\ Ended("vision_return", {"fault"})
    /\ response.status = 200
    /\ response.body.keys = {"reply"}

\* C3 as stated: the vision extractor is invoked exactly when the mode is
\* mode1 or mode3 and a file was supplied.
C3_InvokedIffImageSupplied ==
    pc # "start" =>
        (Calls("vision_call") # {} <=> (mode \in {"mode1", "mode3"} /\ req.file.present))

\* C3 amended: the vision extractor is invoked exactly when the mode is mode1
\* or mode3 and a file was supplied that has an allowed content type and can
\* be opened as an image; the context type is curveball for mode3 and general
\* for mode1.
C3_InvokedIffUsableImage ==
    pc # "start" =>
        /\ Calls("vision_call") # {} <=>
              (lower(req.mode) \in {"mode1", "mode3"} /\ UsableImage(req.file))
        /\ \A i \in Calls("vision_call") :
              /\ log[i].ctype = "curveball" <=> lower(req.mode) = "mode3"
              /\ log[i].ctype = "general" <=> lower(req.mode) # "mode3"
        /\ (~req.file.present \/ lower(req.mode) = "mode2") => Calls("vision_call") = {}

\* C3 witness: the extractor was invoked for mode3, with the curveball type.
C3_Witness ==
    /\ pc = "dispatch"
    /\ mode = "mode3"
    /\ \E i \in Calls("vision_call") : log[i].ctype = "curveball"

\* C4: when the generation call raises, the request ends in status 500 with
\* the provider error and the response carries no reply.
C4_GenerationFaultIsProviderError ==
    Ended("generation_return", {"fault"}) =>
        /\ pc = "done"
        /\ response.status = 500
        /\ response.detail = IF mode = "mode2"
                             THEN "Failed to call Groq API: provider fault"
                             ELSE "Failed to call Gemini API: provider fault"
        /\ "reply" \notin response.body.keys
        /\ response.body.reply = NoValue

\* C4 witness: a generation call of mode1 that raised.
C4_Witness ==
    /\ pc = "done"
    /\ Ended("generation_return", {"fault"})
    /\ mode = "mode1"
    /\ response.status = 500

\* C5: a successful response is an object with the single field reply,
\* whose value is a string.
C5_ReplyIsString ==
    (pc = "done" /\ response.status = 200) =>
        /\ response.body.keys = {"reply"}
        /\ response.body.reply.type = "str"

\* C6 as stated: each provider is called at most once, the vision provider
\* exactly once when the extractor is invoked, and after a provider call has
\* failed no provider call follows.
C6_NoCallAfterAnyFailure ==
    /\ Cardinality(Calls("generation_call")) <= 1
    /\ Cardinality(Calls("vision_call")) <= 1
    /\ \A i \in LogIndex, j \in ProviderCalls :
          (log[i].ev \in {"vision_return", "generation_return"}
              /\ log[i].outcome \in {"fault", "empty"}) => j < i

\* C6 amended: the generation provider is called at most once and the vision
\* provider at most once (exactly once when the extractor is invoked); no
\* provider call follows a failed generation call, and the only provider call
\* that can follow a failed vision call is the one generation call.
C6_NoRetries ==
    /\ Cardinality(Calls("generation_call")) <= 1
    /\ Cardinality(Calls("vision_call")) <= 1
    /\ (pc \notin {"start", "vision"} /\ lower(req.mode) \in {"mode1", "mode3"}
            /\ UsableImage(req.file)) =>
          /\ Cardinality(Calls("vision_call")) = 1
          /\ Cardinality(Calls("vision_return")) = 1
    /\ \A i \in LogIndex, j \in ProviderCalls :
          (log[i].ev = "generation_return" /\ log[i].outcome \in {"fault", "empty"})
              => j < i
    /\ \A i \in LogIndex, j \in Calls("vision_call") :
          (log[i].ev = "vision_return" /\ log[i].outcome \in {"fault", "empty"})
              => j < i

\* C6 witness: both provider calls failed, each was made once.
C6_Witness ==
    /\ pc = "done"
    /\ Ended("vision_return", {"fault"})
    /\ Ended("generation_return", {"fault"})
    /\ Cardinality(ProviderCalls) = 2

\* The text is not a JSON document once trimmed and freed of its fences.
Unparseable(text) == ~json_loads(RemoveFences(text)).ok

C8_FencedDocumentIsParsed ==
    pc = "parsed" =>
        \A sh \in Shapes :
            (WellFormedShape(sh) /\ sh.open /\ sh.close
                /\ sh.body \in DOMAIN JsonDocs /\ Text(sh) = raw_response)
            => result = JsonDocs[sh.body]

\* The provider text was parsed and the value has no key reply.
ParsedWithoutReply ==
    /\ pc = "done"
    /\ Ended("generation_return", {"text"})
    /\ json_loads(RemoveFences(raw_response)).ok
    /\ ~(result.type = "dict" /\ "reply" \in result.members)

\* C9: a provider text that parses to a value without the key reply ends
\* the request in status 500 with the missing-field error.
C9_MissingReplyIsMissingField ==
    ParsedWithoutReply =>
        /\ response.status = 500
        /\ response.detail = MissingReply

\* The identifier of the mode is absent or no key of the mode's mapping.
UnresolvedIdentifier ==
    CASE mode = "mode1" -> req.mood \notin DOMAIN Mode1MoodInstructions
      [] mode = "mode2" -> req.opener_type \notin DOMAIN OpenerTypeInstructions
      [] mode = "mode3" -> req.mood \notin DOMAIN Mode3MoodInstructions
      [] OTHER -> FALSE

ModeMapping ==
    CASE mode = "mode1" -> Mode1MoodInstructions
      [] mode = "mode2" -> OpenerTypeInstructions
      [] OTHER -> Mode3MoodInstructions

\* The other required fields are there and the upload does not stop the request.
OtherwiseValid ==
    /\ mode \in Modes
    /\ (mode = "mode1" => Truthy(req.original_message) /\ Truthy(req.response))
    /\ (mode = "mode3" => Truthy(req.situation_description))
    /\ (mode = "mode2" \/ ~req.file.present \/ UsableImage(req.file))

\* C10 as stated: an absent or unknown identifier resolves to an entry of the
\* mode's mapping and does not make the request fail.
C10_DefaultIsMappingEntry ==
    (pc = "done" /\ OtherwiseValid /\ UnresolvedIdentifier) =>
        /\ Calls("generation_call") # {}
        /\ prompt.target_tone \in Range(ModeMapping)

\* C10 amended: in mode1 and mode3 an absent or empty mood resolves to the
\* entry casual of the mode's mapping, and a mood that is no key resolves to
\* the mode's fixed fallback text, which is no entry of the mapping; in mode2
\* an opener type that is no key resolves to the fixed fallback text.  None
\* of these stops the request.  An absent or empty opener type in mode2 ends
\* the request in status 400.
C10_DefaultResolution ==
    (pc = "done" /\ OtherwiseValid) =>
        /\ (mode # "mode2" \/ Truthy(req.opener_type)) =>
              /\ Calls("generation_call") # {}
              /\ prompt.template = mode
        /\ (mode = "mode1" /\ ~Truthy(req.mood)) =>
              prompt.target_tone = Mode1MoodInstructions["casual"]
        /\ (mode = "mode3" /\ ~Truthy(req.mood)) =>
              prompt.target_tone = Mode3MoodInstructions["casual"]
        /\ (mode = "mode1" /\ Truthy(req.mood) /\ UnresolvedIdentifier) =>
              /\ prompt.target_tone = "Match the requested tone."
              /\ prompt.target_tone \notin Range(Mode1MoodInstructions)
        /\ (mode = "mode3" /\ Truthy(req.mood) /\ UnresolvedIdentifier) =>
              /\ prompt.target_tone = "Handle the situation appropriately."
              /\ prompt.target_tone \notin Range(Mode3MoodInstructions)
        /\ (mode = "mode2" /\ Truthy(req.opener_type) /\ UnresolvedIdentifier) =>
              /\ prompt.target_tone = "Generate an engaging conversation opener."
              /\ prompt.target_tone \notin Range(OpenerTypeInstructions)
        /\ (mode = "mode2" /\ ~Truthy(req.opener_type)) =>
              /\ response.status = 400
              /\ response.detail = Mode2Requires
              /\ Calls("generation_call") = {}

\* C10 witness: mode1 with a mood that is no key ended in a reply, built
\* from the fallback text.
C10_Witness ==
    /\ pc = "done"
    /\ mode = "mode1"
    /\ req.mood = "Casual"
    /\ prompt.target_tone = Mode1Fallback
    /\ response.status = 200

\* ---- C11 ------------------------------------------------------------------

\* The traits of the registry and the set a list of disabled traits denotes.
Universe == {PmoodKeys[i] : i \in DOMAIN PmoodKeys}
Disabled == IF pmoods_off.some THEN Range(pmoods_off.val) ELSE {}

\* The descriptions a text renders: its lines between header and closing.
Rendered == IF instruction = <<>> THEN {}
            ELSE {instruction[i] : i \in 2..(Len(instruction) - 1)}

AllFiveInOrder ==
    <<PmoodHeader,
      PMOOD_DEFINITIONS["pmood1"], PMOOD_DEFINITIONS["pmood2"],
      PMOOD_DEFINITIONS["pmood3"], PMOOD_DEFINITIONS["pmood4"],
      PMOOD_DEFINITIONS["pmood5"], PmoodClosing>>

\* C11: the personalization text of _build_pmood_instruction is empty when
\* every trait of the universe is disabled, carries all five descriptions in
\* the order pmood1..pmood5 when the list is absent or empty, and in general
\* renders exactly the traits of the universe that are not disabled.
C11_RenderedIsUniverseMinusDisabled ==
    pc = "blended" =>
        /\ (Universe \subseteq Disabled => instruction = <<>>)
        /\ (Disabled = {} /\ (~pmoods_off.some \/ pmoods_off.val = <<>>)
                => instruction = AllFiveInOrder)
        /\ Rendered = {PMOOD_DEFINITIONS[t] : t \in Universe \ Disabled}
        /\ (instruction = <<>> <=> Universe \subseteq Disabled)

\* Every trait disabled (in some order): the text is empty.
C11_Witness ==
    /\ pc = "blended"
    /\ pmoods_off.some
    /\ Universe = Disabled
    /\ instruction = <<>>

\* ---- C12 ------------------------------------------------------------------

\* An optional context that is supplied but empty or made of white space only.
BlankContext(c) == c \in {"", " "}

\* The request with its optional context fields absent.
WithoutContext(r) == [r EXCEPT !.personal_context = None, !.context = None]

\* C12: an optional context (personal_context of build_mode1_prompt, context
\* of build_mode2_prompt) that is empty or white space only contributes
\* nothing: the prompt built is the one built with the context absent.
C12_BlankContextContributesNothing ==
    (pc \in {"generate", "done"} /\ prompt # NoPrompt) =>
        /\ (mode = "mode1" /\ BlankContext(req.personal_context)
                => prompt = BuildPrompt(mode, WithoutContext(req), image_context))
        /\ (mode = "mode2" /\ BlankContext(req.context)
                => prompt = BuildPrompt(mode, WithoutContext(req), image_context))

\* ---- C13 ------------------------------------------------------------------

\* The messages of the two generation clients for a failed call.
ProviderErrorDetails ==
    [ gemini |-> [ fault |-> "Failed to call Gemini API: provider fault",
                   empty |-> "Failed to call Gemini API: 500: Gemini API returned empty response" ],
      groq   |-> [ fault |-> "Failed to call Groq API: provider fault",
                   empty |-> "Failed to call Groq API: 500: Groq API returned empty response" ] ]

\* C13: for both generation clients a fault of the call and a structurally
\* empty response end the same way: an error of status 500 whose message
\* names the provider and the cause; the client hands no text to the
\* pipeline, so nothing is parsed and no reply is answered in its place.
C13_FaultAndEmptyAreProviderErrors ==
    \A i \in Calls("generation_return") :
        log[i].outcome \in {"fault", "empty"} =>
            /\ pc = "done"
            /\ response.status = 500
            /\ response.detail = ProviderErrorDetails[log[i].provider][log[i].outcome]
            /\ "reply" \notin response.body.keys
            /\ response.body.reply = NoValue
            /\ raw_response = <<>>
            /\ result = PyNothing
            /\ Calls("normalize") = {}

\* C13 witness: the Groq client got an empty completion.
C13_Witness ==
    /\ pc = "done"
    /\ \E i \in Calls("generation_return") :
          log[i].provider = "groq" /\ log[i].outcome = "empty"
    /\ response.status = 500

\* ---- C14 ------------------------------------------------------------------

\* The content types of PNG, JPEG, WEBP, HEIC and HEIF images.
ImageTypes == {"image/png", "image/jpeg", "image/webp", "image/heic", "image/heif"}

\* C14: the vision provider is never called for an upload whose content type
\* is outside PNG/JPEG/WEBP/HEIC/HEIF, and a mode1 or mode3 request with such
\* an upload ends in status 400 without any provider having been contacted.
C14_OnlyAllowedImageTypes ==
    /\ (Calls("vision_call") # {} => req.file.present /\ req.file.content_type \in ImageTypes)
    /\ (/\ lower(req.mode) \in {"mode1", "mode3"}
        /\ req.file.present
        /\ req.file.content_type \notin ImageTypes)
           => /\ ProviderCalls = {}
              /\ pc \in {"start", "done"}
              /\ (pc = "done" => response.status = 400 /\ response.detail = BadFileType)

\* C14 witness: a complete mode3 request with a GIF upload was refused.
C14_Witness ==
    /\ pc = "done"
    /\ lower(req.mode) = "mode3"
    /\ ~MissingFields("mode3", req)
    /\ req.file.present
    /\ req.file.content_type = "image/gif"
    /\ response.status = 400
    /\ log = <<>>

\* ---- C15 ------------------------------------------------------------------

\* The descriptions of the traits outside the set off, in registry order.
RECURSIVE InRegistryOrder(_, _)
InRegistryOrder(keys, off) ==
    IF keys = <<>> THEN <<>>
    ELSE (IF Head(keys) \in off THEN <<>> ELSE <<PMOOD_DEFINITIONS[Head(keys)]>>)
         \o InRegistryOrder(Tail(keys), off)

\* The one text that belongs to a set of disabled traits.
TextOfSet(off) ==
    IF InRegistryOrder(PmoodKeys, off) = <<>> THEN <<>>
    ELSE <<PmoodHeader>> \o InRegistryOrder(PmoodKeys, off) \o <<PmoodClosing>>

\* C15: the text of _build_pmood_instruction depends only on the set of
\* disabled traits of the universe: lists that differ in order, in
\* repetitions or in identifiers outside the universe get the same text, in
\* which the active traits stand in registry order.
C15_TextIsFunctionOfDisabledSet ==
    pc = "blended" => instruction = TextOfSet(Disabled \cap Universe)

\* C15 witness: a list out of registry order, with a repetition and a
\* foreign identifier, left pmood1, pmood3 and pmood5 active in that order.
C15_Witness ==
    /\ pc = "blended"
    /\ pmoods_off = SomeList(<<"pmood4", "pmood6", "pmood2", "pmood4">>)
    /\ instruction = <<PmoodHeader, PMOOD_DEFINITIONS["pmood1"],
                       PMOOD_DEFINITIONS["pmood3"], PMOOD_DEFINITIONS["pmood5"],
                       PmoodClosing>>

\* ---- C16 ------------------------------------------------------------------

\* Every step of kind first stands before every step of kind second.
Precedes(first, second) ==
    \A i \in Calls(first), j \in Calls(second) : i < j

\* What the vision extractor contributed to the prompt, if it was called.
ExtractedText == IF TruthyContext(image_context) THEN image_context.val ELSE <<>>

\* C16: within a request the steps follow one another: the vision
\* extraction has ended before the prompt is built (the prompt carries what
\* it returned), the prompt is built before the generation call, which is
\* given that very prompt, and normalization runs only after the generation
\* call has returned a text, never after a failed one.
C16_StrictlySequential ==
    /\ Precedes("vision_call", "vision_return")
    /\ Precedes("vision_return", "prompt_built")
    /\ Precedes("prompt_built", "generation_call")
    /\ Precedes("generation_call", "generation_return")
    /\ Precedes("generation_return", "normalize")
    /\ (Calls("prompt_built") # {} /\ Calls("vision_call") # {}
            => Calls("vision_return") # {})
    /\ \A i \in Calls("prompt_built") : log[i].prompt.img_text = ExtractedText
    /\ \A j \in Calls("generation_call") :
          /\ Cardinality(Calls("prompt_built")) = 1
          /\ \A i \in Calls("prompt_built") : log[j].prompt = log[i].prompt
          /\ log[j].prompt = prompt
    /\ (Calls("normalize") # {}
            => /\ Ended("generation_return", {"text"})
               /\ ~Ended("generation_return", {"fault", "empty"}))

\* C16 witness: a request that went through all four steps, the prompt
\* carrying the description the vision extractor returned.
C16_Witness ==
    /\ pc = "done"
    /\ Ended("vision_return", {"text"})
    /\ TruthyContext(image_context)
    /\ prompt.img_text = image_context.val
    /\ Calls("normalize") # {}
    /\ response.status = 200

\* ---- C17 ------------------------------------------------------------------

\* Request t waits for the answer of a provider.
AwaitsProvider(t) == tasks[t].pc \in {"vision", "generate"}

\* Request t has been started by the loop, has not ended, and does not hold
\* the thread: it is suspended.
Suspended(t) == tasks[t].pc \notin {"start", "done"} /\ running # t

\* Request t needs nothing but the thread to go on.
Runnable(t) == tasks[t].pc \in {"start", "reading"}

\* C17: a request yields the thread only at its two provider calls: a
\* request that waits for a provider does not keep a runnable request from
\* going on, and a suspended request is suspended at a provider call.
C17_YieldsOnlyAtProviderCalls ==
    \A t \in DOMAIN tasks :
        /\ (AwaitsProvider(t) => running # t)
        /\ \A u \in DOMAIN tasks :
              (u # t /\ AwaitsProvider(t) /\ Runnable(u)) => ENABLED LoopStep(u)
        /\ (Suspended(t) => AwaitsProvider(t))

\* ---- C18 ------------------------------------------------------------------

\* The image context a request served alone gets from the answer vout of
\* its vision call, if it makes one.
AloneContext(r, vout) ==
    IF ImageStep(lower(r.mode), r.file).next = "vision"
    THEN extract_context_from_image(vout).value
    ELSE NoContext

\* The response a request served alone gets, given the answers vout and
\* gout of its own provider calls.
RunAlone(r, vout, gout) ==
    LET m == lower(r.mode)
        step == ImageStep(m, r.file)
        call == CallApi(Api(m), gout)
        out == Classify(parse_json_response(call.text))
    IN  IF step.next = "raise" THEN Failure(step.exc)
        ELSE IF m \notin Modes THEN Failure(HTTPException(400, InvalidMode))
        ELSE IF MissingFields(m, r) THEN Failure(HTTPException(400, Requires(m)))
        ELSE IF ~call.ok THEN Failure(call.exc)
        ELSE IF out.ok THEN Success(out.body)
        ELSE Failure(out.exc)

\* C18: whatever the interleaving of the concurrent requests, the prompt a
\* request sends and the response it ends with are those of the request
\* served alone with the same fields and the same provider answers; the
\* handlers keep nothing from one request to another.
C18_OutcomeAsIfAlone ==
    \A t \in DOMAIN tasks :
        /\ (tasks[t].prompt # NoPrompt =>
                tasks[t].prompt = BuildPrompt(lower(tasks[t].req.mode), tasks[t].req,
                                              AloneContext(tasks[t].req, tasks[t].vision)))
        /\ (tasks[t].pc = "done" =>
                tasks[t].response = RunAlone(tasks[t].req, tasks[t].vision, tasks[t].generation))

\* C18 witness: two requests of the same mode with different fields were
\* served together and both ended with a reply, each with its own prompt,
\* one of them carrying the description of its image.
C18_Witness ==
    /\ DOMAIN tasks = TaskIds
    /\ \E t, u \in TaskIds :
          /\ t # u
          /\ tasks[t].req.mode = "mode1" /\ tasks[u].req.mode = "mode1"
          /\ tasks[t].prompt # tasks[u].prompt
          /\ tasks[t].prompt # NoPrompt /\ tasks[u].prompt # NoPrompt
          /\ TruthyContext(tasks[t].image_context)
          /\ tasks[t].pc = "done" /\ tasks[u].pc = "done"
          /\ tasks[t].response.status = 200 /\ tasks[u].response.status = 200

\* ---- C19 ------------------------------------------------------------------

\* The messages of the validation errors and of the provider and
\* normalization errors raised in the body of unified_chat.
ValidationDetails ==
    {BadFileType, InvalidMode, Mode1Requires, Mode2Requires, Mode3Requires}
ProviderOrNormalizationDetails ==
    {ParsingFailed, MissingReply}
        \cup {ProviderErrorDetails[p][k] : p \in {"gemini", "groq"}, k \in {"fault", "empty"}}

\* C19: the outer handler does not change the kind of an error: one raised
\* with status 400 (missing field, invalid mode, bad content type) is
\* answered with 400 and its own message, a provider or normalization error
\* with 500, any exception that is no HTTP error with 500; a request that
\* raised is never answered as a success.
C19_ErrorKindsPropagateUnchanged ==
    pc = "done" =>
        /\ (response.raised.exc = "HTTPException" =>
                /\ response.status = response.raised.status_code
                /\ response.detail = response.raised.detail)
        /\ (response.raised.detail \in ValidationDetails =>
                response.raised.exc = "HTTPException" /\ response.status = 400)
        /\ (response.raised.detail \in ProviderOrNormalizationDetails =>
                response.raised.exc = "HTTPException" /\ response.status = 500)
        /\ (response.raised.exc \notin {"", "HTTPException"} => response.status = 500)
        /\ (response.status = 200 <=> response.raised = NoException)
        /\ response.status \in {200, 400, 500}

\* C19 witness: an invalid mode was refused with 400 and reached the caller
\* as 400.
C19_Witness ==
    /\ pc = "done"
    /\ response.raised = HTTPException(400, InvalidMode)
    /\ response.status = 400
    /\ response.detail = InvalidMode

\* ---- C20 ------------------------------------------------------------------

\* The routing table of the generation providers.
ProviderOfMode == [mode1 |-> "gemini", mode2 |-> "groq", mode3 |-> "gemini"]

FallbackSentence(r) ==
    CASE r.mode_type = "mode1" -> <<"That's cool! ", r.user_message>>
      [] r.mode_type = "mode2" ->
            << (IF r.mood \in Range(MODE2_PATTERNS) THEN r.mood ELSE "If you..."),
               " something interesting?" >>
      [] OTHER -> <<"I'm not quite sure how to respond to that, but let's keep talking!">>

\* The generator of the request has been called.
GeneratorCalled == pc \in {"respond", "done"} /\ generated # NotGenerated

\* C21: generate_mode1_reply, generate_mode2_opener and
\* generate_mode3_curveball never raise because of the provider: whatever
\* the provider call ended in they return a text, and when the call failed
\* (an exception, or a completion without content) that text is the static
\* fallback sentence of the mode.
C21_GeneratorsNeverRaise ==
    GeneratorCalled =>
        /\ generated.result.ok
        /\ generated.result.exc = NoException
        /\ (groq_answer.kind \in {"fault", "none"}
                => generated.result.text = FallbackSentence(request))
        /\ (groq_answer.kind = "content"
                => generated.result.text = strip(groq_answer.text))
        /\ ~(chat_response.raised /\ chat_response.exc.exc \in {"APIError", "AttributeError"})

\* C21 witness: the provider call of generate_mode3_curveball raised and
\* the generator returned its sentence.
C21_Witness ==
    /\ GeneratorCalled
    /\ request.mode_type = "mode3"
    /\ groq_answer = GroqFault
    /\ generated.result = Returned(<<"I'm not quite sure how to respond to that, but let's keep talking!">>)

\* ---- C22 ------------------------------------------------------------------

\* What the provider output parses to once trimmed and freed of its fence.
ParsedOutput == json_loads(strip(RemoveFences(raw_response)))

\* C22: when the provider output, trimmed and freed of its fence, parses to
\* an object with a reply key, the request succeeds and answers that
\* object's reply value, whatever other keys the object has (a key named
\* error included); it is never answered as a parsing failure.
C22_ParsedReplyIsAnswered ==
    (/\ pc = "done"
     /\ Calls("normalize") # {}
     /\ ParsedOutput.ok
     /\ ParsedOutput.value.type = "dict"
     /\ "reply" \in ParsedOutput.value.members)
        => /\ response.status = 200
           /\ response.body = ReplyBody(ParsedOutput.value.reply)
           /\ response.detail # ParsingFailed

\* ---- C23 ------------------------------------------------------------------

\* The spellings of the three modes among the requests, and the mode each
\* one selects.
ModeOfSpelling ==
    [ mode1 |-> "mode1", MODE1 |-> "mode1", mode2 |-> "mode2",
      mode3 |-> "mode3", Mode3 |-> "mode3" ]

\* C23: the mode is matched whatever its letter case: a spelling of mode1,
\* mode2 or mode3 selects that mode and is never refused as invalid; a
\* request whose mode is none of them ends in status 400 and contacts no
\* provider, vision or generation, even with an image and every field.
C23_InvalidModeContactsNoProvider ==
    /\ (req.mode \in DOMAIN ModeOfSpelling =>
            /\ (pc # "start" => mode = ModeOfSpelling[req.mode])
            /\ (prompt # NoPrompt => prompt.template = ModeOfSpelling[req.mode])
            /\ response.detail # InvalidMode)
    /\ (req.mode \notin DOMAIN ModeOfSpelling =>
            /\ ProviderCalls = {}
            /\ pc \in {"start", "dispatch", "done"}
            /\ (pc = "done" => response.status = 400 /\ response.detail = InvalidMode))

\* C23 witness: a request of mode4 with a usable image and all its fields
\* set was refused with 400, no provider having been called.
C23_Witness ==
    /\ pc = "done"
    /\ req.mode = "mode4"
    /\ UsableImage(req.file)
    /\ req.original_message = "other" /\ req.situation_description = "other"
    /\ response.status = 400
    /\ log = <<>>

\* ---- C24 ------------------------------------------------------------------

\* The request has the fields its mode requires; mode2 requires none.
PassesValidation(r) ==
    /\ r.mode_type \in Modes
    /\ (r.mode_type = "mode1" =>
            r.opposite_person_message \notin {None, ""} /\ r.user_message \notin {None, ""})
    /\ (r.mode_type = "mode3" => r.situation_description \notin {None, ""})

\* The field of ChatResponse each mode fills and the key of the text in it.
ResponseHolder ==
    [mode1 |-> "mode1_response", mode2 |-> "mode2_response", mode3 |-> "mode3_response"]
TextKey == [mode1 |-> "reply", mode2 |-> "reply", mode3 |-> "curveball_reply"]

\* C24: get_response does not raise for a request that passes validation:
\* it returns the ChatResponse of the mode, carrying the text the generator
\* returned; a mode2 request always gets a mode2 response with its reply
\* field set.
C24_ValidRequestGetsResponse ==
    (pc = "done" /\ PassesValidation(request)) =>
        /\ ~chat_response.raised
        /\ chat_response.mode_type = request.mode_type
        /\ chat_response.holder = ResponseHolder[request.mode_type]
        /\ TextKey[request.mode_type] \in chat_response.keys
        /\ chat_response.text_key = TextKey[request.mode_type]
        /\ chat_response.text = generated.result.text

====
